---- MODULE Spec2Model ----
(***************************************************************************)
(* A model of the San Jose transit-equity ETL helpers (src/code):          *)
(* the largest-overlap spatial join of parcels to zoning districts, the    *)
(* tract attachment join, the ACS indicator arithmetic, the zoning         *)
(* lookups, the statements of run_etl, the city's tracts and their ACS     *)
(* rows, and the parcel and tract summaries around the station.            *)
(*                                                                         *)
(* Geometry is one-dimensional: a polygon is a closed interval [lo, hi]    *)
(* with lo < hi, its area is hi - lo, two polygons that only share an end  *)
(* point intersect with area 0 (the touching neighbours of a real parcel   *)
(* map).  A coordinate reference system is an affine frame over the        *)
(* ground line, so that reprojecting is a real change of coordinates.      *)
(***************************************************************************)
EXTENDS Integers, Sequences, FiniteSets, TLC

VARIABLES
    fn,                       \* the function the caller invokes
    pc,                       \* "call" | "returned" | "raised"
    parcels,                  \* the parcel layer handed to the function
    zoning,                   \* the zoning layer
    tracts,                   \* the tract layer
    tract_fields,             \* attach_tract_data_to_parcels' tract_fields argument
    df,                       \* the ACS table handed to compute_acs_indicators
    cleaned,                  \* what join_parcels_zoning returned
    parcels_with_tract_data,  \* what attach_tract_data_to_parcels returned
    acs,                      \* what compute_acs_indicators returned
    code,                     \* the zoning code handed to abbreviate_zoning / classify_zoning
    join_how,                 \* sjoin_parcels_to_zd's how argument
    places,                   \* the places layer
    city_name,                \* subset_city_tracts' city_name argument
    buffer,                   \* the buffer polygon around the station
    acs_cols,                 \* summarize_acs' acs_cols argument, its items in order
    result,                   \* what the other functions returned
    step,                     \* run_etl: the number of statements executed
    failing,                  \* run_etl: the statement that raises in this run, 0 for none
    saved                     \* run_etl: the files save_parquet wrote, in order

\* the variables run_etl's joins and the ACS arithmetic leave alone
more == <<code, join_how, places, city_name, buffer, acs_cols, result, step, failing, saved>>

vars == <<fn, pc, parcels, zoning, tracts, tract_fields, df, cleaned,
          parcels_with_tract_data, acs, more>>

(***************************************************************************)
(* Bounds of the model.                                                    *)
(***************************************************************************)
\* the ground line is [0, NCells]
NCells == 3
\* the greatest number of rows of the parcel layer
MaxParcels == 2
\* the greatest count in a cell of the ACS table
MaxCount == 2

(***************************************************************************)
(* Values, columns, frames.                                                *)
(***************************************************************************)
\* pandas' missing value (NaN / None): the empty cell; a present value v is <<v>>
NA == <<>>
Some(v) == <<v>>
isna(v) == v = NA

Max(a, b) == IF a >= b THEN a ELSE b
Min(a, b) == IF a <= b THEN a ELSE b
Range(s) == {s[i] : i \in 1..Len(s)}

RECURSIVE SelectIdx(_, _, _)
\* the indices i of s, in order, for which keep[i]
SelectIdx(n, keep, i) ==
    IF i > n THEN <<>>
    ELSE (IF keep[i] THEN <<i>> ELSE <<>>) \o SelectIdx(n, keep, i + 1)

RECURSIVE Flatten(_)
Flatten(ss) == IF ss = <<>> THEN <<>> ELSE Head(ss) \o Flatten(Tail(ss))

\* a column label: a name and the suffixes a join appended to it
Col(n) == [name |-> n, sfx |-> <<>>]
Suffixed(c, s) == [c EXCEPT !.sfx = Append(@, s)]
endswith(c, s) == c.sfx # <<>> /\ c.sfx[Len(c.sfx)] = s
startswith(c, n) == c.name = n

\* the two reference systems of the data: the city's state-plane frame of the
\* shapefiles and the geographic frame of the Census boundary files
ParcelCRS == "EPSG:2227"
CensusCRS == "EPSG:4269"
CRSs == {ParcelCRS, CensusCRS}
\* a frame's coordinate of ground point x is Scale * x + Origin
CrsScale(c) == IF c = ParcelCRS THEN 1 ELSE 2
CrsOrigin(c) == IF c = ParcelCRS THEN 0 ELSE 20
FromGround(x, c) == CrsScale(c) * x + CrsOrigin(c)
ToGround(y, c) == (y - CrsOrigin(c)) \div CrsScale(c)

(***************************************************************************)
(* shapely: polygons and their predicates.                                 *)
(***************************************************************************)
Poly(lo, hi) == [lo |-> lo, hi |-> hi]
area(g) == g.hi - g.lo
intersects(a, b) == Max(a.lo, b.lo) <= Min(a.hi, b.hi)
within(a, b) == b.lo <= a.lo /\ a.hi <= b.hi
\* the area of a.intersection(b): empty, a point, or an interval
intersection_area(a, b) ==
    IF Max(a.lo, b.lo) < Min(a.hi, b.hi)
    THEN Min(a.hi, b.hi) - Max(a.lo, b.lo)
    ELSE 0
Reproject(g, from, to) ==
    Poly(FromGround(ToGround(g.lo, from), to), FromGround(ToGround(g.hi, from), to))

(***************************************************************************)
(* geopandas: a GeoDataFrame is its crs, its attribute columns in order    *)
(* and its rows; a row is its index label, its geometry and its cells.     *)
(***************************************************************************)
GeoDataFrame(crs, columns, rows) == [crs |-> crs, columns |-> columns, rows |-> rows]
Row(index, geometry, attrs) == [index |-> index, geometry |-> geometry, attrs |-> attrs]

to_crs(gdf, crs) ==
    [gdf EXCEPT !.crs = crs,
                !.rows = [i \in 1..Len(gdf.rows) |->
                            [gdf.rows[i] EXCEPT !.geometry = Reproject(@, gdf.crs, crs)]]]

\* gdf.loc[label]: the row with that index label
loc(gdf, label) == CHOOSE r \in Range(gdf.rows) : r.index = label

index_right == Col("index_right")

Predicate(p, a, b) ==
    CASE p = "intersects" -> intersects(a, b)
      [] p = "within" -> within(a, b)

\* the labels both sides carry get the suffixes _left and _right
LeftLabel(c, right) == IF c \in Range(right.columns) THEN Suffixed(c, "_left") ELSE c
RightLabel(c, left) == IF c \in Range(left.columns) THEN Suffixed(c, "_right") ELSE c

SjoinColumns(left, right) ==
    [i \in 1..Len(left.columns) |-> LeftLabel(left.columns[i], right)]
    \o <<index_right>>
    \o [i \in 1..Len(right.columns) |-> RightLabel(right.columns[i], left)]

\* the joined row of left row l and right row r (r = NA: no match)
SjoinRow(left, right, l, r) ==
    Row(l.index, l.geometry,
        [c \in Range(SjoinColumns(left, right)) |->
            IF c = index_right THEN (IF isna(r) THEN NA ELSE Some(r[1].index))
            ELSE IF \E k \in Range(left.columns) : LeftLabel(k, right) = c
            THEN l.attrs[CHOOSE k \in Range(left.columns) : LeftLabel(k, right) = c]
            ELSE IF isna(r) THEN NA
            ELSE r[1].attrs[CHOOSE k \in Range(right.columns) : RightLabel(k, left) = c]])

\* how="left": a left row no right row matches is kept, its right cells missing
UnmatchedDropped(left, right, l) == <<>>
Unmatched(left, right, l) == <<SjoinRow(left, right, l, NA)>>

\* gpd.sjoin(left, right, how="left", predicate=p): every left row once per right
\* row that satisfies the predicate, in left order then right order, and once
\* with missing right cells when none does; the index is the left index
sjoin(left, right, p) ==
    LET matches(l) ==
            SelectIdx(Len(right.rows),
                      [j \in 1..Len(right.rows) |->
                          Predicate(p, l.geometry, right.rows[j].geometry)], 1)
        rowsOf(l) ==
            IF matches(l) = <<>> THEN Unmatched(left, right, l)
            ELSE [k \in 1..Len(matches(l)) |->
                    SjoinRow(left, right, l, Some(right.rows[matches(l)[k]]))]
    IN GeoDataFrame(left.crs, SjoinColumns(left, right),
                    Flatten([i \in 1..Len(left.rows) |-> rowsOf(left.rows[i])]))

\* gdf.drop(columns=[c], errors="ignore")
drop(gdf, c) ==
    LET keep == SelectIdx(Len(gdf.columns),
                          [i \in 1..Len(gdf.columns) |-> gdf.columns[i] # c], 1)
        cols == [k \in 1..Len(keep) |-> gdf.columns[keep[k]]]
    IN [gdf EXCEPT !.columns = cols,
                   !.rows = [i \in 1..Len(gdf.rows) |->
                               [gdf.rows[i] EXCEPT !.attrs = [x \in Range(cols) |-> @[x]]]]]

\* gdf[c] = values, one value per row (the result of gdf.apply(f, axis=1))
assign(gdf, c, values) ==
    [gdf EXCEPT !.columns = IF c \in Range(@) THEN @ ELSE Append(@, c),
                !.rows = [i \in 1..Len(gdf.rows) |->
                            [gdf.rows[i] EXCEPT !.attrs =
                                [x \in DOMAIN @ \cup {c} |->
                                    IF x = c THEN values[i] ELSE @[x]]]]]

(***************************************************************************)
(* functions.py: sjoin_parcels_to_zd and join_parcels_zoning.              *)
(***************************************************************************)
overlap_area == Col("overlap_area")
PARCELID == Col("PARCELID")
ZONING == Col("ZONING")
OBJECTID == Col("OBJECTID")

\* the zoning layer the join and the area are computed against
ReconcileNone(left, right) == right
ReconcileCrs(left, right) ==
    IF left.crs # right.crs THEN to_crs(right, left.crs) ELSE right

get_overlap_area(row, zd) ==
    IF isna(row.attrs[index_right]) THEN 0
    ELSE intersection_area(row.geometry, loc(zd, row.attrs[index_right][1]).geometry)

FirstPerIndexKeepAll(gdf) == gdf
\* joined.loc[~joined.index.duplicated(keep="first")]
FirstPerIndex(gdf) ==
    LET keep == SelectIdx(Len(gdf.rows),
                    [i \in 1..Len(gdf.rows) |->
                        \A j \in 1..(i - 1) : gdf.rows[j].index # gdf.rows[i].index], 1)
    IN [gdf EXCEPT !.rows = [k \in 1..Len(keep) |-> gdf.rows[keep[k]]]]

Raised(e) == [raised |-> e]
Returned(v) == [raised |-> "", value |-> v]

sjoin_parcels_to_zd(p, z, how) ==
    LET zd == ReconcileCrs(p, z)
        joined == sjoin(p, zd, "intersects")
        areas == [i \in 1..Len(joined.rows) |-> Some(get_overlap_area(joined.rows[i], zd))]
    IN CASE how = "largest" ->
              Returned(drop(assign(joined, overlap_area, areas), index_right))
         [] how = "first" -> Returned(drop(FirstPerIndex(joined), index_right))
         [] OTHER -> Raised("ValueError")

\* the order of sort_values(["PARCELID", "overlap_area"], ascending=[True, False]):
\* a missing PARCELID sorts last
BeforeAscending(a, b) ==
    LET ia == a.attrs[PARCELID]
        ib == b.attrs[PARCELID]
    IN IF ia # ib
       THEN (~isna(ia)) /\ (isna(ib) \/ ia[1] < ib[1])
       ELSE a.attrs[overlap_area][1] < b.attrs[overlap_area][1]
Before(a, b) ==
    LET ia == a.attrs[PARCELID]
        ib == b.attrs[PARCELID]
    IN IF ia # ib
       THEN (~isna(ia)) /\ (isna(ib) \/ ia[1] < ib[1])
       ELSE a.attrs[overlap_area][1] > b.attrs[overlap_area][1]

RECURSIVE Insert(_, _)
\* x after the rows it does not come before: the sort is stable
Insert(s, x) ==
    IF s = <<>> THEN <<x>>
    ELSE IF Before(x, Head(s)) THEN <<x>> \o s
    ELSE <<Head(s)>> \o Insert(Tail(s), x)

RECURSIVE SortRows(_)
SortRows(s) ==
    IF s = <<>> THEN <<>>
    ELSE Insert(SortRows(SubSeq(s, 1, Len(s) - 1)), s[Len(s)])

sort_values(gdf) == [gdf EXCEPT !.rows = SortRows(@)]

\* drop_duplicates(subset="PARCELID", keep="first"): missing values are equal
DedupKeepAll(gdf) == gdf
DedupByIndex(gdf) ==
    LET keep == SelectIdx(Len(gdf.rows),
                    [i \in 1..Len(gdf.rows) |->
                        \A j \in 1..(i - 1) : gdf.rows[j].index # gdf.rows[i].index], 1)
    IN [gdf EXCEPT !.rows = [k \in 1..Len(keep) |-> gdf.rows[keep[k]]]]
drop_duplicates(gdf) ==
    LET keep == SelectIdx(Len(gdf.rows),
                    [i \in 1..Len(gdf.rows) |->
                        \A j \in 1..(i - 1) :
                            gdf.rows[j].attrs[PARCELID] # gdf.rows[i].attrs[PARCELID]], 1)
    IN [gdf EXCEPT !.rows = [k \in 1..Len(keep) |-> gdf.rows[keep[k]]]]

reset_index(gdf) ==
    [gdf EXCEPT !.rows = [i \in 1..Len(gdf.rows) |-> [gdf.rows[i] EXCEPT !.index = i - 1]]]

join_parcels_zoning(p, z) ==
    LET joined == sjoin_parcels_to_zd(p, z, "largest")
    IN IF joined.raised # "" THEN joined
       ELSE Returned(reset_index(drop_duplicates(sort_values(joined.value))))

(***************************************************************************)
(* The inputs of the zoning join.                                          *)
(***************************************************************************)
NoLayer == GeoDataFrame(ParcelCRS, <<>>, <<>>)
NoResult == Raised("not called")
\* nothing of the other functions is in play
NoMore ==
    /\ code = NA
    /\ join_how = "largest"
    /\ places = NoLayer
    /\ city_name = ""
    /\ buffer = NA
    /\ acs_cols = <<>>
    /\ result = NoResult
    /\ step = 0
    /\ failing = 0
    /\ saved = <<>>

\* parcel lots start at the western edge of the ground line
ParcelGeoms == {Poly(0, h) : h \in 1..NCells}
ParcelIds == {NA, Some(1), Some(2)}
ParcelLayers ==
    UNION {
        {GeoDataFrame(ParcelCRS, <<PARCELID>>,
                      [i \in 1..n |-> Row(i - 1, g[i], (PARCELID :> id[i]))]) :
            g \in [1..n -> ParcelGeoms], id \in [1..n -> ParcelIds]} :
        n \in 1..MaxParcels}

\* two districts, as the shapefile stores them in the layer's own frame
ZoningCodes == <<"UV", "R-1-1">>
DistrictGeoms == {g \in [lo : 0..NCells, hi : 0..NCells] : g.lo < g.hi}
ZoningLayers ==
    {GeoDataFrame(c, <<OBJECTID, ZONING>>,
                  [i \in 1..Len(ZoningCodes) |->
                      Row(i - 1, Reproject(IF i = 1 THEN g1 ELSE Poly(l2, NCells), ParcelCRS, c),
                          (OBJECTID :> Some(i)) @@ (ZONING :> Some(ZoningCodes[i])))]) :
        c \in CRSs, g1 \in DistrictGeoms, l2 \in 0..(NCells - 1)}

InitJoin ==
    /\ fn = "join_parcels_zoning"
    /\ pc = "call"
    /\ parcels \in ParcelLayers
    /\ zoning \in ZoningLayers
    /\ tracts = NoLayer
    /\ tract_fields = NA
    /\ df = <<>>
    /\ cleaned = NoResult
    /\ parcels_with_tract_data = NoResult
    /\ acs = NoResult
    /\ NoMore

JoinParcelsZoning ==
    /\ fn = "join_parcels_zoning"
    /\ pc = "call"
    /\ cleaned' = join_parcels_zoning(parcels, zoning)
    /\ pc' = IF cleaned'.raised = "" THEN "returned" ELSE "raised"
    /\ UNCHANGED <<fn, parcels, zoning, tracts, tract_fields, df,
                   parcels_with_tract_data, acs, more>>

NextJoin == JoinParcelsZoning

SpecJoin == InitJoin /\ [][NextJoin]_vars

(***************************************************************************)
(* functions.py: attach_tract_data_to_parcels, and its call in run_etl.    *)
(***************************************************************************)
GEOID == Col("GEOID")
NAME == Col("NAME")

\* tract_fields' default
DefaultTractFields ==
    <<"public_transit_pct", "walked_pct", "drove_pct", "pct_renters", "vacancy_rate",
      "median_rent", "median_income", "pct_white", "pct_black", "pct_asian",
      "pct_latino", "pct_college_plus">>

\* run_etl's local tract_fields, and the argument its call passes (None)
RunEtlTractFields ==
    <<"vacancy_rate", "median_rent", "pct_white", "pct_black", "pct_asian",
      "pct_latino", "pct_college_plus">>
RunEtlPassesLocalList == Some(RunEtlTractFields)
RunEtlTractFieldsArg == NA

ReconcileTractCrs(left, right) ==
    IF left.crs # right.crs THEN to_crs(right, left.crs) ELSE right

AttachPredicateIntersects == "intersects"
AttachPredicate == "within"

\* the requested fields that are columns of the tract layer, after GEOID
fields_to_keep(fields, t) ==
    LET keep == SelectIdx(Len(fields),
                          [i \in 1..Len(fields) |-> Col(fields[i]) \in Range(t.columns)], 1)
    IN <<GEOID>> \o [k \in 1..Len(keep) |-> Col(fields[keep[k]])]

\* gdf[cols]: the listed columns only
select(gdf, cols) ==
    [gdf EXCEPT !.columns = cols,
                !.rows = [i \in 1..Len(gdf.rows) |->
                            [gdf.rows[i] EXCEPT !.attrs = [x \in Range(cols) |-> @[x]]]]]

\* gdf.rename(columns={old: new})
rename(gdf, old, new) ==
    LET to(c) == IF c = old THEN new ELSE c
    IN [gdf EXCEPT !.columns = [i \in 1..Len(@) |-> to(@[i])],
                   !.rows = [i \in 1..Len(gdf.rows) |->
                               [gdf.rows[i] EXCEPT !.attrs =
                                   [x \in {to(c) : c \in Range(gdf.columns)} |->
                                       @[CHOOSE c \in Range(gdf.columns) : to(c) = x]]]]]

RECURSIVE RenameGeoid(_, _, _)
\* the loop over the joined frame's columns: a GEOID column suffixed _right is
\* renamed to plain GEOID
KeepSuffix(gdf, cols, i) == gdf
RenameGeoid(gdf, cols, i) ==
    IF i > Len(cols) THEN gdf
    ELSE IF endswith(cols[i], "_right") /\ startswith(cols[i], "GEOID")
    THEN RenameGeoid(rename(gdf, cols[i], GEOID), cols, i + 1)
    ELSE RenameGeoid(gdf, cols, i + 1)

attach_tract_data_to_parcels(parcels_gdf, tracts_gdf, fields_arg) ==
    LET fields == IF isna(fields_arg) THEN DefaultTractFields ELSE fields_arg[1]
        t == ReconcileTractCrs(parcels_gdf, tracts_gdf)
        keep == fields_to_keep(fields, t)
    IN IF \E k \in Range(keep) : k \notin Range(t.columns)
       THEN Raised("KeyError")
       ELSE LET joined == drop(sjoin(parcels_gdf, select(t, keep), AttachPredicate),
                               index_right)
            IN Returned(RenameGeoid(joined, joined.columns, 1))

(***************************************************************************)
(* The inputs of the tract attachment.                                     *)
(***************************************************************************)
\* the parcel layer may carry a GEOID column of its own
AttachParcelColumns == {<<PARCELID>>, <<PARCELID, GEOID>>}
AttachParcelLayers ==
    UNION {
        {GeoDataFrame(ParcelCRS, cols,
                      [i \in 1..n |->
                          Row(i - 1, g[i],
                              [c \in Range(cols) |->
                                  IF c = PARCELID THEN Some(i) ELSE Some("parcel-geoid")])]) :
            g \in [1..n -> ParcelGeoms], cols \in AttachParcelColumns} :
        n \in 1..MaxParcels}

\* a tract layer with every indicator, one that lacks some, one without GEOID
TractColumns ==
    {<<GEOID, NAME>> \o [i \in 1..Len(DefaultTractFields) |-> Col(DefaultTractFields[i])],
     <<GEOID, NAME, Col("median_rent"), Col("median_income"), Col("pct_white")>>,
     <<NAME, Col("median_rent")>>}
TractIds == <<"06085500100", "06085500200">>
\* the first tract from the western edge, the second to the eastern edge: apart,
\* adjacent or overlapping
TractGeoms == {<<Poly(0, h), Poly(l, NCells)>> : h \in 1..NCells, l \in 0..(NCells - 1)}
TractLayers ==
    {GeoDataFrame(c, cols,
                  [i \in 1..Len(TractIds) |->
                      Row(i - 1, Reproject(g[i], ParcelCRS, c),
                          [k \in Range(cols) |->
                              IF k = GEOID THEN Some(TractIds[i]) ELSE Some(<<TractIds[i], k.name>>)])]) :
        c \in CRSs, cols \in TractColumns, g \in TractGeoms}

TractFieldArgs == {NA, Some(RunEtlTractFields), Some(<<"median_rent", "gini">>)}

InitTract ==
    /\ fn \in {"attach_tract_data_to_parcels", "run_etl"}
    /\ pc = "call"
    /\ parcels \in AttachParcelLayers
    /\ zoning = NoLayer
    /\ tracts \in TractLayers
    /\ tract_fields \in IF fn = "run_etl" THEN {Some(RunEtlTractFields)} ELSE TractFieldArgs
    /\ df = <<>>
    /\ cleaned = NoResult
    /\ parcels_with_tract_data = NoResult
    /\ acs = NoResult
    /\ NoMore

AttachTractDataToParcels ==
    /\ fn = "attach_tract_data_to_parcels"
    /\ pc = "call"
    /\ parcels_with_tract_data' = attach_tract_data_to_parcels(parcels, tracts, tract_fields)
    /\ pc' = IF parcels_with_tract_data'.raised = "" THEN "returned" ELSE "raised"
    /\ UNCHANGED <<fn, parcels, zoning, tracts, tract_fields, df, cleaned, acs, more>>

\* run_etl's step: tract_fields is the local list, the call passes None
RunEtlAttach ==
    /\ fn = "run_etl"
    /\ pc = "call"
    /\ parcels_with_tract_data' =
          attach_tract_data_to_parcels(parcels, tracts, RunEtlTractFieldsArg)
    /\ pc' = IF parcels_with_tract_data'.raised = "" THEN "returned" ELSE "raised"
    /\ UNCHANGED <<fn, parcels, zoning, tracts, tract_fields, df, cleaned, acs, more>>

NextTract == AttachTractDataToParcels \/ RunEtlAttach

SpecTract == InitTract /\ [][NextTract]_vars

\* both spatial joins
SpecSpatial == (InitJoin \/ InitTract) /\ [][NextJoin \/ NextTract]_vars

(***************************************************************************)
(* functions.py: compute_acs_indicators.  The table is its columns in      *)
(* order and its rows, a row a cell per column.  A count is <<k>>, NaN is  *)
(* the missing value, a float quotient is <<n, d>> with d > 0, and         *)
(* +inf and -inf are <<1, 0>> and <<-1, 0>>.                               *)
(***************************************************************************)
NaN == NA
Inf == <<1, 0>>
NegInf == <<-1, 0>>

\* Series + Series, elementwise: NaN if either is
add(a, b) == IF isna(a) \/ isna(b) THEN NaN ELSE Some(a[1] + b[1])

\* Series / Series, elementwise, as numpy divides: x/0 is nan for x = 0, else +-inf
truediv_nan_on_zero(a, b) ==
    IF isna(a) \/ isna(b) THEN NaN
    ELSE IF b[1] = 0 THEN NaN
    ELSE IF b[1] > 0 THEN <<a[1], b[1]>> ELSE <<-a[1], -b[1]>>
truediv(a, b) ==
    IF isna(a) \/ isna(b) THEN NaN
    ELSE IF b[1] = 0
    THEN (IF a[1] = 0 THEN NaN ELSE IF a[1] > 0 THEN Inf ELSE NegInf)
    ELSE IF b[1] > 0 THEN <<a[1], b[1]>> ELSE <<-a[1], -b[1]>>

\* Series * 100
mul100(x) == IF isna(x) THEN NaN ELSE IF x[2] = 0 THEN x ELSE <<x[1] * 100, x[2]>>

Sum(c, cols) == [col |-> c, op |-> "sum", of |-> cols]
Pct(c, num, den) == [col |-> c, op |-> "pct", num |-> num, den |-> den]

\* the assignments of compute_acs_indicators, in order
Assignments ==
    << Sum("rent_burdened_count", <<"rent_30_34", "rent_35_39", "rent_40_49", "rent_50_plus">>),
       Pct("rent_burdened_pct", "rent_burdened_count", "total_renter_households"),
       Pct("poverty_rate", "below_poverty", "poverty_universe"),
       Pct("pct_renters", "renter_occupied", "tenure_total"),
       Pct("pct_homeowners", "owner_occupied", "tenure_total"),
       Pct("no_vehicle_pct", "no_vehicle", "total_households"),
       Pct("public_transit_pct", "public_transit_total", "total_workers"),
       Pct("drove_pct", "drove", "total_workers"),
       Pct("bike_pct", "bike", "total_workers"),
       Pct("walked_pct", "walked", "total_workers"),
       Pct("commuter_rail_pct", "commuter_rail", "total_workers"),
       Pct("light_rail_pct", "light_rail", "total_workers"),
       Pct("worked_home_pct", "worked_home", "total_workers"),
       Sum("single_family_units", <<"units_1_detached", "units_1_attached">>),
       Sum("small_multifamily_units", <<"units_2", "units_3_4">>),
       Sum("medium_multifamily_units", <<"units_5_9", "units_10_19">>),
       Sum("large_multifamily_units", <<"units_20_49", "units_50_plus">>),
       Sum("other_units", <<"units_mobile", "units_other">>),
       Pct("pct_single_family", "single_family_units", "units_total"),
       Pct("pct_small_multifamily", "small_multifamily_units", "units_total"),
       Pct("pct_medium_multifamily", "medium_multifamily_units", "units_total"),
       Pct("pct_large_multifamily", "large_multifamily_units", "units_total"),
       Pct("pct_other", "other_units", "units_total"),
       Pct("vacancy_rate", "housing_units_vacant", "housing_units_total"),
       Pct("pct_white", "white", "race_total"),
       Pct("pct_black", "black", "race_total"),
       Pct("pct_asian", "asian", "race_total"),
       Pct("pct_latino", "hispanic", "hisp_total"),
       Sum("college_plus", <<"bachelors", "masters", "professional", "doctorate">>),
       Pct("pct_college_plus", "college_plus", "edu_total") >>

\* the last of the first k - 1 assignments that sets column c (0: none does)
LastWrite(c, k) ==
    LET js == {j \in 1..(k - 1) : Assignments[j].col = c}
    IN IF js = {} THEN 0 ELSE CHOOSE j \in js : \A i \in js : i <= j

RECURSIVE ValueAt(_, _, _)
RECURSIVE SumAt(_, _, _)
\* the sum of the listed columns as assignment k reads them
SumAt(row, cols, k) ==
    IF Len(cols) = 1 THEN ValueAt(row, cols[1], k)
    ELSE add(SumAt(row, SubSeq(cols, 1, Len(cols) - 1), k), ValueAt(row, cols[Len(cols)], k))

\* the cell of column c of a row as assignment k reads it: what the last
\* assignment before k stored there, or the pulled value
ValueAt(row, c, k) ==
    LET j == LastWrite(c, k)
    IN IF j = 0 THEN row[c]
       ELSE IF Assignments[j].op = "sum" THEN SumAt(row, Assignments[j].of, j)
       ELSE mul100(truediv(ValueAt(row, Assignments[j].num, j),
                           ValueAt(row, Assignments[j].den, j)))

RECURSIVE NewColumns(_, _)
\* the columns the first n assignments append
NewColumns(cols, n) ==
    IF n = 0 THEN cols
    ELSE LET prev == NewColumns(cols, n - 1)
         IN IF Assignments[n].col \in Range(prev) THEN prev
            ELSE Append(prev, Assignments[n].col)

compute_acs_indicators(t) ==
    Returned([columns |-> NewColumns(t.columns, Len(Assignments)),
              rows |-> [i \in 1..Len(t.rows) |->
                          [c \in DOMAIN t.rows[i] \cup {a.col : a \in Range(Assignments)} |->
                              ValueAt(t.rows[i], c, Len(Assignments) + 1)]]])

(***************************************************************************)
(* The inputs of compute_acs_indicators: the table pull_acs_data returns,  *)
(* one row per tract.                                                      *)
(***************************************************************************)
Denominators == {a.den : a \in {b \in Range(Assignments) : b.op = "pct"}}
Computed == {a.col : a \in Range(Assignments)}
\* the pulled columns the indicators read
RawColumns ==
    (UNION {IF a.op = "sum" THEN Range(a.of) ELSE {a.num, a.den} : a \in Range(Assignments)})
        \ Computed
Counts == {NaN} \cup {Some(k) : k \in 0..MaxCount}
\* a tract's row: its counts, its universes, and one universe that may be empty
AcsRow(n, d, zero) ==
    [c \in RawColumns |->
        IF c = zero THEN Some(0) ELSE IF c \in Denominators THEN d ELSE n]
AcsTables ==
    {[columns |-> <<"GEOID">>,
      rows |-> [i \in 1..Len(TractIds) |->
                   ("GEOID" :> Some(TractIds[i]))
                       @@ AcsRow(n[i], d[i], IF i = 1 THEN zero ELSE "")]] :
        n \in [1..Len(TractIds) -> Counts], d \in [1..Len(TractIds) -> Counts],
        zero \in Denominators \cup {""}}

InitAcs ==
    /\ fn = "compute_acs_indicators"
    /\ pc = "call"
    /\ parcels = NoLayer
    /\ zoning = NoLayer
    /\ tracts = NoLayer
    /\ tract_fields = NA
    /\ df \in AcsTables
    /\ cleaned = NoResult
    /\ parcels_with_tract_data = NoResult
    /\ acs = NoResult
    /\ NoMore

\* the table is changed in place and returned
ComputeAcsIndicators ==
    /\ fn = "compute_acs_indicators"
    /\ pc = "call"
    /\ acs' = compute_acs_indicators(df)
    /\ df' = IF acs'.raised = "" THEN acs'.value ELSE df
    /\ pc' = IF acs'.raised = "" THEN "returned" ELSE "raised"
    /\ UNCHANGED <<fn, parcels, zoning, tracts, tract_fields, cleaned,
                   parcels_with_tract_data, more>>

NextAcs == ComputeAcsIndicators

SpecAcs == InitAcs /\ [][NextAcs]_vars

(***************************************************************************)
(* What the zoning join is checked against: the layers as they lie on the  *)
(* ground, whatever frame each is stored in.                               *)
(***************************************************************************)
Ground(g, c) == Poly(ToGround(g.lo, c), ToGround(g.hi, c))
GroundIntersects(g, z) ==
    intersects(Ground(g, parcels.crs), Ground(z.geometry, zoning.crs))
\* the area parcel geometry g shares with district z, in the parcel frame's units
GroundOverlap(g, z) ==
    CrsScale(parcels.crs)
        * intersection_area(Ground(g, parcels.crs), Ground(z.geometry, zoning.crs))

JoinDone == fn = "join_parcels_zoning" /\ pc = "returned"
Out == cleaned.value.rows
InIds == {r.attrs[PARCELID] : r \in Range(parcels.rows)}
\* the input rows that carry PARCELID id, and the output rows that do
RowsOf(id) == {r \in Range(parcels.rows) : r.attrs[PARCELID] = id}
OutOf(id) == {i \in 1..Len(Out) : Out[i].attrs[PARCELID] = id}
\* the districts parcel row p intersects
Cands(p) == {z \in Range(zoning.rows) : GroundIntersects(p.geometry, z)}
\* output row o carries district z, with the area it shares with parcel row p
Assigned(o, p, z) ==
    /\ o.attrs[OBJECTID] = z.attrs[OBJECTID]
    /\ o.attrs[ZONING] = z.attrs[ZONING]
    /\ o.attrs[overlap_area] = Some(GroundOverlap(p.geometry, z))
\* output row o is input row p, unassigned
Unassigned(o) ==
    /\ \A k \in Range(zoning.columns) : isna(o.attrs[k])
    /\ o.attrs[overlap_area] = Some(0)
\* output row o is the row of input parcel p
IsRowOf(o, p) == o.attrs[PARCELID] = p.attrs[PARCELID] /\ o.geometry = p.geometry
\* output row o gives parcel p a district of greatest intersection area
LargestOf(o, p) ==
    \E z \in Cands(p) :
        /\ Assigned(o, p, z)
        /\ \A y \in Cands(p) : GroundOverlap(p.geometry, z) >= GroundOverlap(p.geometry, y)

\* C1 as stated: every input parcel that intersects at least one zoning district is
\* on an output row (one only: see C4) whose district is an intersecting candidate
\* of greatest intersection area.
C1_EveryParcelLargestOverlap ==
    JoinDone =>
        \A p \in Range(parcels.rows) :
            Cands(p) # {} => \E i \in 1..Len(Out) : IsRowOf(Out[i], p) /\ LargestOf(Out[i], p)

\* C1, amended: every PARCELID of the input is on exactly one output row, which is
\* one of the input rows of that PARCELID; if that row intersects a district, its
\* district is an intersecting candidate of greatest intersection area, and no
\* (row, district) pair of the same PARCELID has a greater area.  So a parcel whose
\* PARCELID no other row carries and that intersects a district gets exactly one
\* district, of greatest intersection area.
C1_LargestOverlap ==
    JoinDone =>
        /\ \A id \in InIds :
              /\ Cardinality(OutOf(id)) = 1
              /\ \A i \in OutOf(id) :
                    /\ \E p \in RowsOf(id) :
                          /\ Out[i].geometry = p.geometry
                          /\ IF Cands(p) # {} THEN LargestOf(Out[i], p) ELSE Unassigned(Out[i])
                    /\ \A p \in RowsOf(id) : \A z \in Cands(p) :
                          Out[i].attrs[overlap_area][1] >= GroundOverlap(p.geometry, z)
        /\ \A p \in Range(parcels.rows) :
              (RowsOf(p.attrs[PARCELID]) = {p} /\ Cands(p) # {}) =>
                  \E i \in 1..Len(Out) : IsRowOf(Out[i], p) /\ LargestOf(Out[i], p)

\* a parcel of a PARCELID of its own, with two candidate districts of different
\* positive intersection areas, was joined
C1_Witness ==
    /\ JoinDone
    /\ \E p \in Range(parcels.rows) : \E y, z \in Cands(p) :
          /\ RowsOf(p.attrs[PARCELID]) = {p}
          /\ GroundOverlap(p.geometry, z) > GroundOverlap(p.geometry, y)
          /\ GroundOverlap(p.geometry, y) > 0

\* C2 as stated: every input parcel that intersects no zoning district is on an
\* output row, with every zoning attribute missing and overlap_area 0.
C2_EveryUnmatchedKept ==
    JoinDone =>
        \A p \in Range(parcels.rows) :
            Cands(p) = {} => \E i \in 1..Len(Out) : IsRowOf(Out[i], p) /\ Unassigned(Out[i])

\* C2, amended: a parcel that intersects no zoning district and whose PARCELID no
\* other input row carries is on an output row, with every zoning attribute
\* missing and overlap_area 0; of the input rows that share a PARCELID one is
\* kept, so an unmatched parcel is either kept so or replaced by another row of
\* its PARCELID; and every output row whose parcel intersects no district has
\* missing zoning attributes and overlap_area 0.
C2_UnmatchedKept ==
    JoinDone =>
        /\ \A p \in Range(parcels.rows) :
              Cands(p) = {} =>
                  \E i \in OutOf(p.attrs[PARCELID]) :
                      \/ IsRowOf(Out[i], p) /\ Unassigned(Out[i])
                      \/ \E q \in RowsOf(p.attrs[PARCELID]) :
                            q.index # p.index /\ q.geometry # p.geometry /\ IsRowOf(Out[i], q)
        /\ \A i \in 1..Len(Out) :
              (\A z \in Range(zoning.rows) : ~GroundIntersects(Out[i].geometry, z)) =>
                  Unassigned(Out[i])

\* a parcel outside every district, of a PARCELID of its own, was joined beside
\* a parcel that intersects a district
C2_Witness ==
    /\ JoinDone
    /\ \E p, q \in Range(parcels.rows) :
          /\ Cands(p) = {}
          /\ RowsOf(p.attrs[PARCELID]) = {p}
          /\ Cands(q) # {}

\* C3 as stated: the output has as many rows as the input parcel layer.
C3_RowCountEqualsInput ==
    JoinDone => Len(Out) = Len(parcels.rows)

\* C3, amended: the output has as many rows as the input parcel layer has distinct
\* PARCELID values (a missing PARCELID counting as one value); that is the input's
\* row count exactly when no two input rows carry the same PARCELID.
C3_RowCountIsDistinctIds ==
    JoinDone =>
        /\ Len(Out) = Cardinality(InIds)
        /\ (Len(Out) = Len(parcels.rows)) <=> (Cardinality(InIds) = Len(parcels.rows))

\* a parcel that intersects two districts was joined, in a layer of distinct PARCELIDs
C3_Witness ==
    /\ JoinDone
    /\ Cardinality(InIds) = Len(parcels.rows)
    /\ Len(parcels.rows) > 1
    /\ \E p \in Range(parcels.rows) : Cardinality(Cands(p)) > 1

\* C4: no two output rows share a PARCELID, and every PARCELID value of the input
\* parcel layer is on exactly one output row (and no other value is on any).
C4_UniqueParcelId ==
    JoinDone =>
        /\ \A i, j \in 1..Len(Out) : Out[i].attrs[PARCELID] = Out[j].attrs[PARCELID] => i = j
        /\ \A id \in InIds : Cardinality(OutOf(id)) = 1
        /\ \A i \in 1..Len(Out) : Out[i].attrs[PARCELID] \in InIds

\* two rows of one PARCELID, each intersecting both districts, were deduplicated
C4_Witness ==
    /\ JoinDone
    /\ \E r, s \in Range(parcels.rows) :
          /\ r.index # s.index
          /\ r.attrs[PARCELID] = s.attrs[PARCELID]
          /\ Cardinality(Cands(r)) > 1 /\ Cardinality(Cands(s)) > 1

(***************************************************************************)
(* What the tract attachment is checked against.                           *)
(***************************************************************************)
AttachDone == fn \in {"attach_tract_data_to_parcels", "run_etl"} /\ pc = "returned"
TOut == parcels_with_tract_data.value
\* the tracts whose polygon contains parcel row p, on the ground
Containing(p) ==
    {t \in Range(tracts.rows) :
        within(Ground(p.geometry, parcels.crs), Ground(t.geometry, tracts.crs))}
\* the tracts parcel row p shares area with
Sharing(p) ==
    {t \in Range(tracts.rows) :
        intersection_area(Ground(p.geometry, parcels.crs), Ground(t.geometry, tracts.crs)) > 0}
\* the output rows of parcel row p: the join keeps the parcel layer's index
RowsFor(p) == {i \in 1..Len(TOut.rows) : TOut.rows[i].index = p.index}
\* the fields the call asks for
Requested ==
    IF fn = "run_etl" \/ isna(tract_fields) THEN DefaultTractFields ELSE tract_fields[1]
\* those of them the tract layer has
Kept == {Col(f) : f \in Range(Requested)} \cap Range(tracts.columns)
Carries(o, t) ==
    /\ o.attrs[GEOID] = t.attrs[GEOID]
    /\ \A k \in Kept : o.attrs[k] = t.attrs[k]
NullTract(o) ==
    /\ isna(o.attrs[GEOID])
    /\ \A k \in Kept : isna(o.attrs[k])
\* the labels of the parcel layer's own columns in the output
ParcelLabels == {IF c = GEOID THEN Suffixed(c, "_left") ELSE c : c \in Range(parcels.columns)}

\* C5: the join predicate and the intersection area are evaluated with both layers
\* in the parcel layer's reference system: the output is in the parcel layer's
\* frame with the parcel geometries as given, a parcel is matched exactly to the
\* districts (tracts) it intersects (lies within) on the ground even when the
\* other layer is stored in another frame, and overlap_area is the area shared
\* with the district as reprojected into the parcel frame.
C5_CommonCrs ==
    /\ JoinDone =>
          /\ cleaned.value.crs = parcels.crs
          /\ \A i \in 1..Len(Out) :
                \E p \in RowsOf(Out[i].attrs[PARCELID]) :
                    /\ Out[i].geometry = p.geometry
                    /\ isna(Out[i].attrs[OBJECTID]) <=> (Cands(p) = {})
                    /\ Cands(p) # {} => \E z \in Cands(p) : Assigned(Out[i], p, z)
    /\ AttachDone =>
          /\ TOut.crs = parcels.crs
          /\ GEOID \in Range(TOut.columns)
          /\ \A p \in Range(parcels.rows) :
                /\ \A i \in RowsFor(p) : TOut.rows[i].geometry = p.geometry
                /\ {TOut.rows[i].attrs[GEOID] : i \in RowsFor(p)} =
                      IF Containing(p) = {} THEN {NA}
                      ELSE {t.attrs[GEOID] : t \in Containing(p)}

\* a zoning layer stored in another frame than the parcels was joined, and a parcel
\* shares area with one of its districts
C5_Witness ==
    /\ JoinDone
    /\ zoning.crs # parcels.crs
    /\ \E p \in Range(parcels.rows) : \E z \in Cands(p) : GroundOverlap(p.geometry, z) > 0

\* C6: each parcel gets the fields of a tract whose polygon contains the whole
\* parcel; a parcel no tract contains, one that straddles two tracts included, is
\* kept with a missing GEOID and missing indicator values.
C6_Containment ==
    AttachDone =>
        /\ GEOID \in Range(TOut.columns)
        /\ \A p \in Range(parcels.rows) :
              /\ RowsFor(p) # {}
              /\ \A i \in RowsFor(p) :
                    /\ TOut.rows[i].geometry = p.geometry
                    /\ \A c \in Range(parcels.columns) :
                          TOut.rows[i].attrs[IF c = GEOID THEN Suffixed(c, "_left") ELSE c]
                              = p.attrs[c]
                    /\ IF Containing(p) = {} THEN NullTract(TOut.rows[i])
                       ELSE \E t \in Containing(p) : Carries(TOut.rows[i], t)

\* a parcel that shares area with both tracts and lies within neither was attached,
\* beside a parcel that lies within a tract, and indicator fields were kept
C6_Witness ==
    /\ AttachDone
    /\ Kept # {}
    /\ \E p, q \in Range(parcels.rows) :
          /\ Containing(p) = {}
          /\ Cardinality(Sharing(p)) = 2
          /\ Containing(q) # {}

\* C7 as stated: every input parcel is on at most one output row, and the output
\* has as many rows as the input parcel layer.
C7_AtMostOneTract ==
    AttachDone =>
        /\ \A p \in Range(parcels.rows) : Cardinality(RowsFor(p)) <= 1
        /\ Len(TOut.rows) = Len(parcels.rows)

\* C7, amended: every input parcel is on one output row per tract whose polygon
\* contains it, and on one row when none does; so the output has as many rows as
\* the input exactly when no parcel lies within two tracts, which is the case
\* whenever no two tract polygons share area.
C7_OneRowPerContainingTract ==
    AttachDone =>
        /\ \A p \in Range(parcels.rows) :
              Cardinality(RowsFor(p)) = Max(1, Cardinality(Containing(p)))
        /\ \A i \in 1..Len(TOut.rows) : \E p \in Range(parcels.rows) : i \in RowsFor(p)
        /\ (Len(TOut.rows) = Len(parcels.rows))
              <=> (\A p \in Range(parcels.rows) : Cardinality(Containing(p)) <= 1)
        /\ (\A t, u \in Range(tracts.rows) :
                t.index # u.index => intersection_area(t.geometry, u.geometry) = 0)
              => /\ \A p \in Range(parcels.rows) : Cardinality(RowsFor(p)) = 1
                 /\ Len(TOut.rows) = Len(parcels.rows)

\* tracts that share no area were attached to two parcels, one within a tract and
\* one within none
C7_Witness ==
    /\ AttachDone
    /\ \A t, u \in Range(tracts.rows) :
          t.index # u.index => intersection_area(t.geometry, u.geometry) = 0
    /\ \E p, q \in Range(parcels.rows) : Containing(p) = {} /\ Containing(q) # {}

\* C8: the output has exactly one column named GEOID, holding the identifier of the
\* matched tract, whether or not the parcel layer has a GEOID column of its own
\* (whose values then stay under GEOID_left, no GEOID_right column remaining).
C8_OneGeoidColumn ==
    AttachDone =>
        /\ Cardinality({i \in 1..Len(TOut.columns) : TOut.columns[i] = GEOID}) = 1
        /\ \A i \in 1..Len(TOut.columns) : ~endswith(TOut.columns[i], "_right")
        /\ \A p \in Range(parcels.rows) : \A i \in RowsFor(p) :
              /\ TOut.rows[i].attrs[GEOID] \in
                    IF Containing(p) = {} THEN {NA} ELSE {t.attrs[GEOID] : t \in Containing(p)}
              /\ GEOID \in Range(parcels.columns) =>
                    TOut.rows[i].attrs[Suffixed(GEOID, "_left")] = p.attrs[GEOID]

\* a parcel layer with a GEOID column of its own was attached, a parcel within a tract
C8_Witness ==
    /\ AttachDone
    /\ GEOID \in Range(parcels.columns)
    /\ \E p \in Range(parcels.rows) : Containing(p) # {}

\* C9: the columns added to the parcels are exactly GEOID and the requested fields
\* that are columns of the tract layer; a requested field the tract layer lacks is
\* left out without an error (the call raises only when the tract layer has no
\* GEOID column); and run_etl's call requests the default twelve fields.
C9_AddedColumns ==
    /\ (fn \in {"attach_tract_data_to_parcels", "run_etl"} /\ pc = "raised")
          => GEOID \notin Range(tracts.columns)
    /\ AttachDone =>
          /\ Range(TOut.columns) \ ParcelLabels = {GEOID} \cup Kept
          /\ fn = "run_etl" =>
                Range(TOut.columns) \ ParcelLabels =
                    {GEOID} \cup ({Col(f) : f \in Range(DefaultTractFields)}
                                    \cap Range(tracts.columns))

\* run_etl attached a tract layer that has a field of the default list that is not
\* in run_etl's local list, lacks a requested field and has a column never requested
C9_Witness ==
    /\ AttachDone
    /\ fn = "run_etl"
    /\ Col("median_income") \in Range(tracts.columns)
    /\ Col("pct_college_plus") \notin Range(tracts.columns)
    /\ NAME \in Range(tracts.columns)

(***************************************************************************)
(* What compute_acs_indicators is checked against.                         *)
(***************************************************************************)
AcsDone == fn = "compute_acs_indicators" /\ pc = "returned"
Percentages == {a \in Range(Assignments) : a.op = "pct"}
RECURSIVE SumOfCells(_, _)
SumOfCells(row, cols) ==
    IF cols = <<>> THEN Some(0)
    ELSE add(row[Head(cols)], SumOfCells(row, Tail(cols)))
\* the value is the quotient n / d * 100
IsPercentOf(v, n, d) == Len(v) = 2 /\ v[2] > 0 /\ v[1] * d = 100 * n * v[2]

\* C10 as stated: every percentage is numerator / denominator * 100, and NaN for a
\* tract whose denominator is 0, whatever the numerator; no error is raised.
C10_ZeroDenominatorIsNaN ==
    /\ fn = "compute_acs_indicators" => pc # "raised"
    /\ AcsDone =>
          \A i \in 1..Len(acs.value.rows) : \A a \in Percentages :
              LET row == acs.value.rows[i]
              IN /\ (~isna(row[a.num]) /\ ~isna(row[a.den]) /\ row[a.den][1] # 0) =>
                        IsPercentOf(row[a.col], row[a.num][1], row[a.den][1])
                 /\ (~isna(row[a.den]) /\ row[a.den][1] = 0) => row[a.col] = NaN

\* C10, amended: every percentage is numerator / denominator * 100; for a tract
\* whose denominator is 0 it is NaN when the numerator is 0 or missing and +inf
\* when the numerator is positive; it is NaN when either count is missing; no
\* error is raised, and every row's values are computed from the counts of its
\* own tract.
C10_ZeroDenominator ==
    /\ fn = "compute_acs_indicators" => pc # "raised"
    /\ AcsDone =>
          /\ Len(acs.value.rows) = Len(TractIds)
          /\ \A i \in 1..Len(acs.value.rows) :
              LET row == acs.value.rows[i]
              IN /\ row["GEOID"] = Some(TractIds[i])
                 /\ \A a \in Range(Assignments) :
                       a.op = "sum" => row[a.col] = SumOfCells(row, a.of)
                 /\ \A a \in Percentages :
                       LET n == row[a.num]
                           d == row[a.den]
                       IN /\ (isna(n) \/ isna(d)) => row[a.col] = NaN
                          /\ (~isna(n) /\ ~isna(d) /\ d[1] # 0) =>
                                IsPercentOf(row[a.col], n[1], d[1])
                          /\ (~isna(n) /\ ~isna(d) /\ d[1] = 0 /\ n[1] = 0) => row[a.col] = NaN
                          /\ (~isna(n) /\ ~isna(d) /\ d[1] = 0 /\ n[1] > 0) => row[a.col] = Inf

\* a tract with an empty universe and a positive count in it was computed beside a
\* tract whose universes are not empty
C10_Witness ==
    /\ AcsDone
    /\ \E a \in Percentages :
          /\ acs.value.rows[1][a.den] = Some(0)
          /\ ~isna(acs.value.rows[1][a.num]) /\ acs.value.rows[1][a.num][1] > 0
          /\ \A b \in Percentages :
                ~isna(acs.value.rows[2][b.den]) /\ acs.value.rows[2][b.den][1] > 0

(***************************************************************************)
(* functions.py: abbreviate_zoning and classify_zoning.  A string is the   *)
(* sequence of its characters, so that strip() and the case of a letter    *)
(* are real; a cell holding the string s is Some(s), a null cell is NA.    *)
(***************************************************************************)
\* the characters str.strip() removes
Whitespace == {" ", "\t", "\n"}

strip_none(s) == s
\* s.strip()
strip(s) ==
    LET ink == {i \in 1..Len(s) : s[i] \notin Whitespace}
    IN IF ink = {} THEN <<>>
       ELSE SubSeq(s, CHOOSE i \in ink : \A j \in ink : i <= j,
                      CHOOSE i \in ink : \A j \in ink : i >= j)

\* d.get(key, default)
get(d, key, default) == IF key \in DOMAIN d THEN d[key] ELSE default

zoning_abb ==
       (<<"U", "V">> :> "Urban Village")
    @@ (<<"U", "V", "C">> :> "Urban Village Commercial")
    @@ (<<"U", "R">> :> "Urban Residential")
    @@ (<<"T", "R">> :> "Transit Residential")
    @@ (<<"M", "U">> :> "Mixed Use")
    @@ (<<"M", "U", "C">> :> "Mixed Use Commercial")
    @@ (<<"M", "U", "N">> :> "Municipal/Neighborhood Mixed Use")

abbreviate_zoning(c) ==
    IF isna(c) THEN "Unknown" ELSE get(zoning_abb, strip(c[1]), "Other")

zoning_classification ==
       (<<"R", "-", "1", "-", "1">> :> "Residential")
    @@ (<<"R", "-", "1", "-", "2">> :> "Residential")
    @@ (<<"R", "-", "1", "-", "5">> :> "Residential")
    @@ (<<"R", "-", "1", "-", "1", "0">> :> "Residential")
    @@ (<<"R", "-", "1", "-", "8">> :> "Residential")
    @@ (<<"R", "-", "1", "-", "R", "R">> :> "Residential")
    @@ (<<"R", "-", "2">> :> "Residential")
    @@ (<<"R", "-", "M">> :> "Residential")
    @@ (<<"R", "-", "M", "H">> :> "Residential")
    @@ (<<"M", "S", "-", "C">> :> "Residential")
    @@ (<<"M", "S", "-", "G">> :> "Residential")
    @@ (<<"R", "-", "2", "(", "P", "D", ")">> :> "Residential")
    @@ (<<"R", "-", "1", "-", "1", "(", "P", "D", ")">> :> "Residential")
    @@ (<<"R", "-", "1", "-", "2", "(", "P", "D", ")">> :> "Residential")
    @@ (<<"R", "-", "1", "-", "5", "(", "P", "D", ")">> :> "Residential")
    @@ (<<"R", "-", "1", "-", "5", "(", "C", "L", ")">> :> "Residential")
    @@ (<<"R", "-", "1", "-", "8", "(", "P", "D", ")">> :> "Residential")
    @@ (<<"R", "-", "1", "-", "8", "(", "C", "L", ")">> :> "Residential")
    @@ (<<"R", "-", "M", "(", "P", "D", ")">> :> "Residential")
    @@ (<<"R", "-", "M", "(", "C", "L", ")">> :> "Residential")
    @@ (<<"C", "-", "1">> :> "Commercial")
    @@ (<<"C", "-", "2">> :> "Commercial")
    @@ (<<"C", "P">> :> "Commercial")
    @@ (<<"C", "N">> :> "Commercial")
    @@ (<<"C", "G">> :> "Commercial")
    @@ (<<"C", "R">> :> "Commercial")
    @@ (<<"C", "O">> :> "Commercial")
    @@ (<<"C", "I", "C">> :> "Commercial")
    @@ (<<"T", "E", "C">> :> "Commercial")
    @@ (<<"D", "C">> :> "Commercial")
    @@ (<<"D", "C", "-", "N", "T", "1">> :> "Commercial")
    @@ (<<"C", "G", "(", "P", "D", ")">> :> "Commercial")
    @@ (<<"C", "N", "(", "P", "D", ")">> :> "Commercial")
    @@ (<<"C", "P", "(", "P", "D", ")">> :> "Commercial")
    @@ (<<"C", "I", "C", "(", "P", "D", ")">> :> "Commercial")
    @@ (<<"C", "O", "(", "P", "D", ")">> :> "Commercial")
    @@ (<<"D", "C", "(", "P", "D", ")">> :> "Commercial")
    @@ (<<"T", "E", "C", "(", "P", "D", ")">> :> "Commercial")
    @@ (<<"L", "I", "(", "P", "D", ")">> :> "Industrial")
    @@ (<<"H", "I", "(", "P", "D", ")">> :> "Industrial")
    @@ (<<"I", "P", "(", "P", "D", ")">> :> "Industrial")
    @@ (<<"L", "I">> :> "Industrial")
    @@ (<<"H", "I">> :> "Industrial")
    @@ (<<"I", "P">> :> "Industrial")
    @@ (<<"M", "U", "N">> :> "Mixed Use")
    @@ (<<"M", "U", "C">> :> "Mixed Use")
    @@ (<<"U", "V">> :> "Mixed Use")
    @@ (<<"U", "V", "C">> :> "Mixed Use")
    @@ (<<"U", "R">> :> "Mixed Use")
    @@ (<<"T", "R">> :> "Mixed Use")
    @@ (<<"M", "U", "N", "(", "P", "D", ")">> :> "Mixed Use")
    @@ (<<"U", "R", "(", "P", "D", ")">> :> "Mixed Use")
    @@ (<<"O", "S">> :> "Special Purpose")
    @@ (<<"A">> :> "Special Purpose")
    @@ (<<"P", "Q">> :> "Special Purpose")
    @@ (<<"P", "Q", "P">> :> "Special Purpose")
    @@ (<<"P", "F">> :> "Special Purpose")
    @@ (<<"P", "I">> :> "Special Purpose")
    @@ (<<"W", "A", "T", "E", "R">> :> "Special Purpose")
    @@ (<<"O", "S", "(", "P", "D", ")">> :> "Special Purpose")
    @@ (<<"A", "(", "P", "D", ")">> :> "Special Purpose")
    @@ (<<"P", "Q", "P", "(", "P", "D", ")">> :> "Special Purpose")
    @@ (<<"O", "T", "H", "E", "R">> :> "Other")

classify_zoning(c) ==
    IF isna(c) THEN "Unknown" ELSE get(zoning_classification, strip(c[1]), "Other")

\* the codes handed to the lookups: null, every key of either table, a key in
\* lower case, a key with a blank inside, codes of no table, the empty string,
\* each with whitespace before and after
Keys == DOMAIN zoning_abb \cup DOMAIN zoning_classification
Cores ==
    Keys \cup {<<"u", "v">>, <<"U", "v">>, <<"r", "-", "1", "-", "1">>, <<"o", "t", "h", "e", "r">>,
               <<"U", " ", "V">>, <<"R", "-", "1">>, <<"X">>, <<"U", "V", "X">>, <<>>}
Pads == {<<>>, <<" ">>, <<"\t">>, <<" ", "\n">>}
Codes == {NA} \cup {Some(l \o k \o r) : l \in Pads, k \in Cores, r \in Pads}

InitZoning ==
    /\ fn \in {"abbreviate_zoning", "classify_zoning"}
    /\ pc = "call"
    /\ parcels = NoLayer
    /\ zoning = NoLayer
    /\ tracts = NoLayer
    /\ tract_fields = NA
    /\ df = <<>>
    /\ cleaned = NoResult
    /\ parcels_with_tract_data = NoResult
    /\ acs = NoResult
    /\ code \in Codes
    /\ join_how = "largest"
    /\ places = NoLayer
    /\ city_name = ""
    /\ buffer = NA
    /\ acs_cols = <<>>
    /\ result = NoResult
    /\ step = 0
    /\ failing = 0
    /\ saved = <<>>

AbbreviateZoning ==
    /\ fn = "abbreviate_zoning"
    /\ pc = "call"
    /\ result' = Returned(abbreviate_zoning(code))
    /\ pc' = "returned"
    /\ UNCHANGED <<fn, parcels, zoning, tracts, tract_fields, df, cleaned,
                   parcels_with_tract_data, acs, code, join_how, places, city_name,
                   buffer, acs_cols, step, failing, saved>>

ClassifyZoning ==
    /\ fn = "classify_zoning"
    /\ pc = "call"
    /\ result' = Returned(classify_zoning(code))
    /\ pc' = "returned"
    /\ UNCHANGED <<fn, parcels, zoning, tracts, tract_fields, df, cleaned,
                   parcels_with_tract_data, acs, code, join_how, places, city_name,
                   buffer, acs_cols, step, failing, saved>>

NextZoning == AbbreviateZoning \/ ClassifyZoning

SpecZoning == InitZoning /\ [][NextZoning]_vars

(***************************************************************************)
(* 01_data_pipeline.py: run_etl, statement by statement.  Every call can   *)
(* raise (a missing shapefile, the Census API, a KeyError in a join, a     *)
(* full disk); the run this behaviour follows raises at statement          *)
(* `failing`, or nowhere when failing = 0.  run_etl has no try/except.     *)
(***************************************************************************)
Statement(stage, call, out) == [stage |-> stage, call |-> call, out |-> out]

ExtractStatements ==
    <<Statement("Extract", "load_parcels", ""),
      Statement("Extract", "load_zoning", ""),
      Statement("Extract", "load_affordable_housing", ""),
      Statement("Extract", "load_equity_index", ""),
      Statement("Extract", "pull_acs_data", ""),
      Statement("Extract", "pull_tracts", ""),
      Statement("Extract", "pull_places", "")>>

TransformStatements ==
    <<Statement("Transform", "join_parcels_zoning", ""),
      Statement("Transform", "abbreviate_zoning", ""),
      Statement("Transform", "classify_zoning", ""),
      Statement("Transform", "zoning_planned", ""),
      Statement("Transform", "compute_acs_indicators", ""),
      Statement("Transform", "subset_city_tracts", ""),
      Statement("Transform", "merge_tracts_with_acs", ""),
      Statement("Transform", "attach_tract_data_to_parcels", "")>>

LoadStatements ==
    <<Statement("Load", "save_parquet", "parcels_with_zoning.parquet"),
      Statement("Load", "save_parquet", "zoning.parquet"),
      Statement("Load", "save_parquet", "equity.parquet"),
      Statement("Load", "save_parquet", "affordable.parquet"),
      Statement("Load", "save_parquet", "san_jose_tracts_with_acs.geoparquet"),
      Statement("Load", "save_parquet", "parcels_with_zoning_and_tract_data.parquet")>>

RunEtlLoadFirst == ExtractStatements \o LoadStatements \o TransformStatements
\* the body of run_etl in program order
RunEtlStatements == ExtractStatements \o TransformStatements \o LoadStatements

UncaughtSwallowed == "call"
\* where run_etl is after a statement raised: nothing catches, the caller gets the error
Uncaught == "raised"

InitEtl ==
    /\ fn = "run_etl"
    /\ pc = "call"
    /\ parcels = NoLayer
    /\ zoning = NoLayer
    /\ tracts = NoLayer
    /\ tract_fields = NA
    /\ df = <<>>
    /\ cleaned = NoResult
    /\ parcels_with_tract_data = NoResult
    /\ acs = NoResult
    /\ code = NA
    /\ join_how = "largest"
    /\ places = NoLayer
    /\ city_name = "San Jose"
    /\ buffer = NA
    /\ acs_cols = <<>>
    /\ result = NoResult
    /\ step = 0
    /\ failing \in 0..Len(RunEtlStatements)
    /\ saved = <<>>

\* the next statement is of this stage and completes
Completes(stage) ==
    /\ fn = "run_etl"
    /\ pc = "call"
    /\ step < Len(RunEtlStatements)
    /\ RunEtlStatements[step + 1].stage = stage
    /\ failing # step + 1
    /\ step' = step + 1

Extract ==
    /\ Completes("Extract")
    /\ UNCHANGED <<fn, pc, parcels, zoning, tracts, tract_fields, df, cleaned,
                   parcels_with_tract_data, acs, code, join_how, places, city_name,
                   buffer, acs_cols, result, failing, saved>>

Transform ==
    /\ Completes("Transform")
    /\ UNCHANGED <<fn, pc, parcels, zoning, tracts, tract_fields, df, cleaned,
                   parcels_with_tract_data, acs, code, join_how, places, city_name,
                   buffer, acs_cols, result, failing, saved>>

\* save_parquet(gdf, path)
SaveParquet ==
    /\ Completes("Load")
    /\ saved' = Append(saved, RunEtlStatements[step + 1].out)
    /\ UNCHANGED <<fn, pc, parcels, zoning, tracts, tract_fields, df, cleaned,
                   parcels_with_tract_data, acs, code, join_how, places, city_name,
                   buffer, acs_cols, result, failing>>

\* the next statement raises
RunEtlRaise ==
    /\ fn = "run_etl"
    /\ pc = "call"
    /\ step < Len(RunEtlStatements)
    /\ failing = step + 1
    /\ step' = step + 1
    /\ pc' = Uncaught
    /\ UNCHANGED <<fn, parcels, zoning, tracts, tract_fields, df, cleaned,
                   parcels_with_tract_data, acs, code, join_how, places, city_name,
                   buffer, acs_cols, result, failing, saved>>

\* the end of the body
RunEtlReturn ==
    /\ fn = "run_etl"
    /\ pc = "call"
    /\ step = Len(RunEtlStatements)
    /\ pc' = "returned"
    /\ UNCHANGED <<fn, parcels, zoning, tracts, tract_fields, df, cleaned,
                   parcels_with_tract_data, acs, code, join_how, places, city_name,
                   buffer, acs_cols, result, step, failing, saved>>

NextEtl == Extract \/ Transform \/ SaveParquet \/ RunEtlRaise \/ RunEtlReturn

SpecEtl == InitEtl /\ [][NextEtl]_vars

(***************************************************************************)
(* functions.py: subset_city_tracts and merge_tracts_with_acs.  A point    *)
(* is held by twice its coordinate, so that the centroid of an interval    *)
(* with integer ends is exact.                                             *)
(***************************************************************************)
Point(x2) == [x2 |-> x2]
centroid(g) == Point(g.lo + g.hi)
\* shapely: a point is within a polygon when it lies in its interior
point_within(pt, b) == 2 * b.lo < pt.x2 /\ pt.x2 < 2 * b.hi

geometry == Col("geometry")

where_any(gdf, c, v) == gdf
\* gdf[gdf[c] == v]
where_eq(gdf, c, v) ==
    LET keep == SelectIdx(Len(gdf.rows),
                          [i \in 1..Len(gdf.rows) |-> gdf.rows[i].attrs[c] = Some(v)], 1)
    IN [gdf EXCEPT !.rows = [k \in 1..Len(keep) |-> gdf.rows[keep[k]]]]

\* tracts_copy["centroid"] = tracts_copy.centroid; tracts_copy.set_geometry("centroid"):
\* the centroid is the active geometry, the polygon an ordinary column named geometry
set_geometry_centroid(gdf) ==
    [gdf EXCEPT !.columns = Append(@, geometry),
                !.rows = [i \in 1..Len(gdf.rows) |->
                            Row(gdf.rows[i].index, centroid(gdf.rows[i].geometry),
                                [c \in DOMAIN gdf.rows[i].attrs \cup {geometry} |->
                                    IF c = geometry THEN Some(gdf.rows[i].geometry)
                                    ELSE gdf.rows[i].attrs[c]])]]

\* gpd.sjoin(left, right, predicate="within") with the default how="inner", the
\* left geometries points: a left row once per right polygon it is within, in
\* left order then right order, and not at all when it is within none
sjoin_inner(left, right) ==
    LET matches(l) ==
            SelectIdx(Len(right.rows),
                      [j \in 1..Len(right.rows) |->
                          point_within(l.geometry, right.rows[j].geometry)], 1)
        rowsOf(l) ==
            [k \in 1..Len(matches(l)) |->
                SjoinRow(left, right, l, Some(right.rows[matches(l)[k]]))]
    IN GeoDataFrame(left.crs, SjoinColumns(left, right),
                    Flatten([i \in 1..Len(left.rows) |-> rowsOf(left.rows[i])]))

\* gdf.set_geometry(series): every row takes the geometry the series holds at
\* the row's index label
set_geometry(gdf, series) ==
    [gdf EXCEPT !.rows = [i \in 1..Len(gdf.rows) |->
                            [gdf.rows[i] EXCEPT !.geometry = loc(series, gdf.rows[i].index).geometry]]]

subset_city_tracts(tracts_gdf, places_gdf, name) ==
    LET city == where_eq(places_gdf, NAME, name)
        tracts_copy == set_geometry_centroid(tracts_gdf)
        subset == drop(sjoin_inner(tracts_copy, city), geometry)
    IN Returned(set_geometry(subset, tracts_gdf))

GEOID_left == Suffixed(GEOID, "_left")

\* merge's labels: a column both sides carry, the keys apart, gets _x and _y
MergeLeftLabel(c, right) ==
    IF c # GEOID_left /\ c.sfx = <<>> /\ c.name \in Range(right.columns) \ {"GEOID"}
    THEN Suffixed(c, "_x") ELSE c
MergeRightLabel(n, left) ==
    IF n # "GEOID" /\ Col(n) \in Range(left.columns) THEN Suffixed(Col(n), "_y") ELSE Col(n)

\* tracts_city.merge(acs_df, left_on="GEOID_left", right_on="GEOID", how="left"):
\* every left row once per ACS row with its GEOID, once with missing ACS cells
\* when there is none; the index is renumbered
merge_tracts_with_acs(tracts_city, acs_df) ==
    IF GEOID_left \notin Range(tracts_city.columns) \/ "GEOID" \notin Range(acs_df.columns)
    THEN Raised("KeyError")
    ELSE
        LET lcols == [i \in 1..Len(tracts_city.columns) |->
                        MergeLeftLabel(tracts_city.columns[i], acs_df)]
            rcols == [i \in 1..Len(acs_df.columns) |->
                        MergeRightLabel(acs_df.columns[i], tracts_city)]
            matches(l) ==
                SelectIdx(Len(acs_df.rows),
                          [j \in 1..Len(acs_df.rows) |->
                              acs_df.rows[j]["GEOID"] = l.attrs[GEOID_left]], 1)
            merged(l, r) ==
                Row(l.index, l.geometry,
                    [c \in Range(lcols) \cup Range(rcols) |->
                        IF \E k \in Range(tracts_city.columns) : MergeLeftLabel(k, acs_df) = c
                        THEN l.attrs[CHOOSE k \in Range(tracts_city.columns) :
                                        MergeLeftLabel(k, acs_df) = c]
                        ELSE IF isna(r) THEN NA
                        ELSE r[1][CHOOSE n \in Range(acs_df.columns) :
                                     MergeRightLabel(n, tracts_city) = c]])
            rowsOf(l) ==
                IF matches(l) = <<>> THEN <<merged(l, NA)>>
                ELSE [k \in 1..Len(matches(l)) |-> merged(l, Some(acs_df.rows[matches(l)[k]]))]
            rows == Flatten([i \in 1..Len(tracts_city.rows) |-> rowsOf(tracts_city.rows[i])])
        IN Returned(GeoDataFrame(tracts_city.crs, lcols \o rcols,
                                 [i \in 1..Len(rows) |-> [rows[i] EXCEPT !.index = i - 1]]))

\* the layers pygris returns, both in the Census frame: the tracts of the
\* state, and two places, the second covering the whole ground line
CityTractLayers ==
    {GeoDataFrame(CensusCRS, <<GEOID, NAME>>,
                  [i \in 1..Len(TractIds) |->
                      Row(i - 1, Reproject(g[i], ParcelCRS, CensusCRS),
                          (GEOID :> Some(TractIds[i])) @@ (NAME :> Some(<<"Census Tract", i>>)))]) :
        g \in TractGeoms}
PlaceNames == <<"San Jose", "Santa Clara">>
PlaceLayers ==
    {GeoDataFrame(CensusCRS, <<GEOID, NAME>>,
                  [i \in 1..Len(PlaceNames) |->
                      Row(i - 1,
                          Reproject(IF i = 1 THEN g ELSE Poly(0, NCells), ParcelCRS, CensusCRS),
                          (GEOID :> Some(<<"place", i>>)) @@ (NAME :> Some(PlaceNames[i])))]) :
        g \in DistrictGeoms}
CityNames == {"San Jose", "Fremont"}
\* the ACS table: a row for some of the tracts, in either order
MergeAcsTables ==
    {[columns |-> <<"GEOID", "median_rent">>,
      rows |-> [k \in 1..Len(ids) |->
                   ("GEOID" :> Some(ids[k])) @@ ("median_rent" :> Some(<<ids[k], "median_rent">>))]] :
        ids \in {<<>>, <<TractIds[1]>>, <<TractIds[2]>>, TractIds, <<TractIds[2], TractIds[1]>>}}

InitCity ==
    /\ fn = "subset_city_tracts"
    /\ pc = "call"
    /\ parcels = NoLayer
    /\ zoning = NoLayer
    /\ tracts \in CityTractLayers
    /\ tract_fields = NA
    /\ df \in MergeAcsTables
    /\ cleaned = NoResult
    /\ parcels_with_tract_data = NoResult
    /\ acs = NoResult
    /\ code = NA
    /\ join_how = "largest"
    /\ places \in PlaceLayers
    /\ city_name \in CityNames
    /\ buffer = NA
    /\ acs_cols = <<>>
    /\ result = NoResult
    /\ step = 0
    /\ failing = 0
    /\ saved = <<>>

SubsetCityTracts ==
    /\ fn = "subset_city_tracts"
    /\ pc = "call"
    /\ result' = subset_city_tracts(tracts, places, city_name)
    /\ pc' = IF result'.raised = "" THEN "returned" ELSE "raised"
    /\ UNCHANGED fn
    /\ UNCHANGED <<parcels, zoning, tracts, tract_fields, df, cleaned,
                   parcels_with_tract_data, acs, code, join_how, places, city_name,
                   buffer, acs_cols, step, failing, saved>>

\* run_etl hands the subset to merge_tracts_with_acs
MergeTractsWithAcs ==
    /\ fn = "subset_city_tracts"
    /\ pc = "returned"
    /\ fn' = "merge_tracts_with_acs"
    /\ result' = merge_tracts_with_acs(result.value, df)
    /\ pc' = IF result'.raised = "" THEN "returned" ELSE "raised"
    /\ UNCHANGED <<parcels, zoning, tracts, tract_fields, df, cleaned,
                   parcels_with_tract_data, acs, code, join_how, places, city_name,
                   buffer, acs_cols, step, failing, saved>>

NextCity == SubsetCityTracts \/ MergeTractsWithAcs

SpecCity == InitCity /\ [][NextCity]_vars

(***************************************************************************)
(* diridon_utils.py: summarize_parcels, given the parcel layer run_etl     *)
(* wrote (01_data_pipeline.py, the zoning columns) or any other layer with *)
(* a zoning_class column.  Layers and buffer are in the metric frame.      *)
(***************************************************************************)
MetricCRS == "EPSG:3857"
zoning_label == Col("zoning")
zoning_class == Col("zoning_class")
centroid_label == Col("centroid")

\* gdf[c] = gdf[from].apply(f), f one of the two lookups
apply_lookup(gdf, c, from, f) ==
    assign(gdf, c,
           [i \in 1..Len(gdf.rows) |->
               Some(IF f = "abbreviate_zoning" THEN abbreviate_zoning(gdf.rows[i].attrs[from])
                    ELSE classify_zoning(gdf.rows[i].attrs[from]))])

\* run_etl: parcels_zoned["zoning"] and parcels_zoned["zoning_class"]
run_etl_zoning_columns(parcels_zoned) ==
    apply_lookup(apply_lookup(parcels_zoned, zoning_label, ZONING, "abbreviate_zoning"),
                 zoning_class, ZONING, "classify_zoning")

\* within_1m.set_geometry("geometry"): the polygon is the active geometry
\* again, the centroid stays as an ordinary column
set_geometry_polygon(gdf) ==
    LET cols == [i \in 1..Len(gdf.columns) |->
                    IF gdf.columns[i] = geometry THEN centroid_label ELSE gdf.columns[i]]
    IN [gdf EXCEPT !.columns = cols,
                   !.rows = [i \in 1..Len(gdf.rows) |->
                               Row(gdf.rows[i].index, gdf.rows[i].attrs[geometry][1],
                                   [c \in Range(cols) |->
                                       IF c = centroid_label THEN Some(gdf.rows[i].geometry)
                                       ELSE gdf.rows[i].attrs[c]])]]

\* centroids[centroids.centroid.within(buffer_1m)]
centroid_within(gdf, b) ==
    LET keep == SelectIdx(Len(gdf.rows),
                          [i \in 1..Len(gdf.rows) |-> point_within(gdf.rows[i].geometry, b)], 1)
    IN [gdf EXCEPT !.rows = [k \in 1..Len(keep) |-> gdf.rows[keep[k]]]]

CallersFrameAliased(gdf, changed) == changed
\* parcels_m = parcels_m.copy(): what the function changes is not the caller's frame
CallersFrame(gdf, changed) == gdf

\* the three values returned, and the caller's frame after the call
summarize_parcels(parcels_m, buffer_1m) ==
    IF zoning_class \notin Range(parcels_m.columns) THEN Raised("KeyError")
    ELSE
        LET centroids == set_geometry_centroid(parcels_m)
            within_1m == set_geometry_polygon(centroid_within(centroids, buffer_1m))
            uv == where_eq(within_1m, zoning_class, "Urban Village")
        IN Returned([within_1m |-> within_1m,
                     uv |-> uv,
                     summary |-> [total_parcels |-> Len(within_1m.rows),
                                  uv_parcels |-> Len(uv.rows)],
                     parcels_m |-> CallersFrame(parcels_m,
                                                set_geometry_polygon(centroids))])

\* the codes of the zoning layer that reach a parcel
ParcelZoningCodes == {NA, Some(<<"U", "V">>), Some(<<" ", "U", "V">>), Some(<<"R", "-", "1", "-", "1">>)}
\* what join_parcels_zoning returned to run_etl
JoinedLayers ==
    UNION {
        {GeoDataFrame(MetricCRS, <<PARCELID, ZONING>>,
                      [i \in 1..n |->
                          Row(i - 1, g[i], (PARCELID :> Some(i)) @@ (ZONING :> z[i]))]) :
            g \in [1..n -> ParcelGeoms], z \in [1..n -> ParcelZoningCodes]} :
        n \in 1..MaxParcels}
\* a layer of another producer, its zoning_class whatever that producer wrote
ZoningClasses == {NA, Some("Urban Village"), Some("Mixed Use")}
OtherLayers ==
    UNION {
        {GeoDataFrame(MetricCRS, <<PARCELID, zoning_class>>,
                      [i \in 1..n |->
                          Row(i - 1, g[i], (PARCELID :> Some(i)) @@ (zoning_class :> z[i]))]) :
            g \in [1..n -> ParcelGeoms], z \in [1..n -> ZoningClasses]} :
        n \in 1..MaxParcels}
\* the disc around the station: an interval of the line
Buffers == {Some(b) : b \in DistrictGeoms}

InitParcels ==
    /\ fn \in {"run_etl", "summarize_parcels"}
    /\ pc = "call"
    /\ parcels \in IF fn = "run_etl" THEN {NoLayer} ELSE OtherLayers
    /\ zoning = NoLayer
    /\ tracts = NoLayer
    /\ tract_fields = NA
    /\ df = <<>>
    /\ cleaned \in IF fn = "run_etl" THEN {Returned(l) : l \in JoinedLayers} ELSE {NoResult}
    /\ parcels_with_tract_data = NoResult
    /\ acs = NoResult
    /\ code = NA
    /\ join_how = "largest"
    /\ places = NoLayer
    /\ city_name = ""
    /\ buffer \in Buffers
    /\ acs_cols = <<>>
    /\ result = NoResult
    /\ step = 0
    /\ failing = 0
    /\ saved = <<>>

\* run_etl adds the two columns to parcels_zoned in place and saves it; the
\* analysis loads that file as its parcel layer
RunEtlZoningColumns ==
    /\ fn = "run_etl"
    /\ pc = "call"
    /\ cleaned' = Returned(run_etl_zoning_columns(cleaned.value))
    /\ parcels' = cleaned'.value
    /\ fn' = "summarize_parcels"
    /\ UNCHANGED <<pc, result>>
    /\ UNCHANGED <<zoning, tracts, tract_fields, df, acs,
                   parcels_with_tract_data, code, join_how, places, city_name,
                   buffer, acs_cols, step, failing, saved>>

SummarizeParcels ==
    /\ fn = "summarize_parcels"
    /\ pc = "call"
    /\ result' = summarize_parcels(parcels, buffer[1])
    /\ parcels' = IF result'.raised = "" THEN result'.value.parcels_m ELSE parcels
    /\ pc' = IF result'.raised = "" THEN "returned" ELSE "raised"
    /\ UNCHANGED <<fn, cleaned>>
    /\ UNCHANGED <<zoning, tracts, tract_fields, df, acs,
                   parcels_with_tract_data, code, join_how, places, city_name,
                   buffer, acs_cols, step, failing, saved>>

NextParcels == RunEtlZoningColumns \/ SummarizeParcels

SpecParcels == InitParcels /\ [][NextParcels]_vars

(***************************************************************************)
(* diridon_utils.py: summarize_acs.  acs_cols is the dict's items in       *)
(* order, the summary a function of its labels; a mean is the pair of the  *)
(* sum and the number of the values present, NaN when none is.             *)
(***************************************************************************)
in_buffer == Col("in_buffer")

RECURSIVE SumSeq(_)
SumSeq(xs) == IF xs = <<>> THEN 0 ELSE Head(xs) + SumSeq(Tail(xs))

\* gdf[c].mean(): missing values are skipped
mean(gdf, c) ==
    LET keep == SelectIdx(Len(gdf.rows),
                          [i \in 1..Len(gdf.rows) |-> ~isna(gdf.rows[i].attrs[c])], 1)
        xs == [k \in 1..Len(keep) |-> gdf.rows[keep[k]].attrs[c][1]]
    IN IF xs = <<>> THEN NaN ELSE <<SumSeq(xs), Len(xs)>>

where_every(gdf, c) == gdf
\* gdf[gdf[c]]: the rows whose cell of the boolean column c is True
where_true(gdf, c) ==
    LET keep == SelectIdx(Len(gdf.rows),
                          [i \in 1..Len(gdf.rows) |-> gdf.rows[i].attrs[c] = Some(TRUE)], 1)
    IN [gdf EXCEPT !.rows = [k \in 1..Len(keep) |-> gdf.rows[keep[k]]]]

\* the two values returned: tracts_sel and summary
summarize_acs(tracts_m, buffer_2m, cols) ==
    LET flagged == assign(tracts_m, in_buffer,
                          [i \in 1..Len(tracts_m.rows) |->
                              Some(intersects(tracts_m.rows[i].geometry, buffer_2m))])
        tracts_sel == where_true(flagged, in_buffer)
        present == {i \in 1..Len(cols) : Col(cols[i].col) \in Range(tracts_sel.columns)}
    IN Returned([tracts_sel |-> tracts_sel,
                 summary |-> [l \in {cols[i].label : i \in present} |->
                                 mean(tracts_sel,
                                      Col(cols[CHOOSE i \in present : cols[i].label = l].col))]])

\* the tract layer of the analysis, with both indicators or with one of them
SummaryTractColumns ==
    {<<GEOID, Col("median_rent"), Col("pct_white")>>, <<GEOID, Col("median_rent")>>}
Cells == {NA} \cup {Some(k) : k \in 0..MaxCount}
SummaryTractLayers ==
    {GeoDataFrame(MetricCRS, cols,
                  [i \in 1..Len(TractIds) |->
                      Row(i - 1, g[i],
                          [c \in Range(cols) |->
                              IF c = GEOID THEN Some(TractIds[i])
                              ELSE IF c = Col("median_rent") THEN v[i] ELSE Some(i)])]) :
        cols \in SummaryTractColumns, g \in TractGeoms, v \in [1..Len(TractIds) -> Cells]}
AcsColsArgs ==
    {<<[label |-> "Median rent", col |-> "median_rent"], [label |-> "% White", col |-> "pct_white"]>>,
     <<[label |-> "Gini", col |-> "gini"], [label |-> "Median rent", col |-> "median_rent"],
       [label |-> "Rent", col |-> "median_rent"]>>,
     <<>>}

InitAcsSummary ==
    /\ fn = "summarize_acs"
    /\ pc = "call"
    /\ parcels = NoLayer
    /\ zoning = NoLayer
    /\ tracts \in SummaryTractLayers
    /\ tract_fields = NA
    /\ df = <<>>
    /\ cleaned = NoResult
    /\ parcels_with_tract_data = NoResult
    /\ acs = NoResult
    /\ code = NA
    /\ join_how = "largest"
    /\ places = NoLayer
    /\ city_name = ""
    /\ buffer \in Buffers
    /\ acs_cols \in AcsColsArgs
    /\ result = NoResult
    /\ step = 0
    /\ failing = 0
    /\ saved = <<>>

SummarizeAcs ==
    /\ fn = "summarize_acs"
    /\ pc = "call"
    /\ result' = summarize_acs(tracts, buffer[1], acs_cols)
    /\ pc' = IF result'.raised = "" THEN "returned" ELSE "raised"
    /\ UNCHANGED <<fn, parcels, zoning, tracts, tract_fields, df, cleaned,
                   parcels_with_tract_data, acs, code, join_how, places, city_name,
                   buffer, acs_cols, step, failing, saved>>

NextAcsSummary == SummarizeAcs

SpecAcsSummary == InitAcsSummary /\ [][NextAcsSummary]_vars

(***************************************************************************)
(* functions.py: sjoin_parcels_to_zd called with each how.                 *)
(***************************************************************************)
\* the parcel layer as load_parcels reads it: a row per lot, its own PARCELID
SjoinParcelLayers ==
    UNION {
        {GeoDataFrame(ParcelCRS, <<PARCELID>>,
                      [i \in 1..n |-> Row(i - 1, g[i], (PARCELID :> Some(i)))]) :
            g \in [1..n -> ParcelGeoms]} :
        n \in 1..MaxParcels}
Hows == {"largest", "first", "nearest", ""}

InitSjoin ==
    /\ fn = "sjoin_parcels_to_zd"
    /\ pc = "call"
    /\ parcels \in SjoinParcelLayers
    /\ zoning \in ZoningLayers
    /\ tracts = NoLayer
    /\ tract_fields = NA
    /\ df = <<>>
    /\ cleaned = NoResult
    /\ parcels_with_tract_data = NoResult
    /\ acs = NoResult
    /\ code = NA
    /\ join_how \in Hows
    /\ places = NoLayer
    /\ city_name = ""
    /\ buffer = NA
    /\ acs_cols = <<>>
    /\ result = NoResult
    /\ step = 0
    /\ failing = 0
    /\ saved = <<>>

SjoinParcelsToZd ==
    /\ fn = "sjoin_parcels_to_zd"
    /\ pc = "call"
    /\ result' = sjoin_parcels_to_zd(parcels, zoning, join_how)
    /\ pc' = IF result'.raised = "" THEN "returned" ELSE "raised"
    /\ UNCHANGED <<fn, parcels, zoning, tracts, tract_fields, df, cleaned,
                   parcels_with_tract_data, acs, code, join_how, places, city_name,
                   buffer, acs_cols, step, failing, saved>>

NextSjoin == SjoinParcelsToZd

SpecSjoin == InitSjoin /\ [][NextSjoin]_vars

(***************************************************************************)
(* The lookups against the tables.                                         *)
(***************************************************************************)
LookupDone == fn \in {"abbreviate_zoning", "classify_zoning"} /\ pc = "returned"
TableOf(f) == IF f = "abbreviate_zoning" THEN zoning_abb ELSE zoning_classification
\* t is s without its leading and trailing whitespace
IsStripOf(t, s) ==
    \E a, b \in 0..Len(s) :
        /\ a + b <= Len(s)
        /\ t = SubSeq(s, a + 1, Len(s) - b)
        /\ \A i \in 1..a : s[i] \in Whitespace
        /\ \A i \in (Len(s) - b + 1)..Len(s) : s[i] \in Whitespace
        /\ t # <<>> => t[1] \notin Whitespace /\ t[Len(t)] \notin Whitespace
        /\ t = <<>> => a + b = Len(s)

\* C11: abbreviate_zoning and classify_zoning never raise for a string or a
\* null code; a null code yields "Unknown", a code that is a key of the
\* function's table once its leading and trailing whitespace is stripped
\* yields that key's value, and every other code (a key in another letter
\* case included) yields "Other".
C11_StaticLookup ==
    /\ fn \in {"abbreviate_zoning", "classify_zoning"} => pc # "raised"
    /\ LookupDone =>
          /\ result.raised = ""
          /\ isna(code) => result.value = "Unknown"
          /\ ~isna(code) =>
                \A k \in Cores :
                    IsStripOf(k, code[1]) =>
                        result.value = IF k \in DOMAIN TableOf(fn) THEN TableOf(fn)[k] ELSE "Other"
          /\ ~isna(code) => \E k \in Cores : IsStripOf(k, code[1])

\* a key with whitespace before and after it was looked up
C11_Witness ==
    /\ LookupDone
    /\ code = Some(<<" ", "U", "V", " ", "\n">>)
    /\ result.value = IF fn = "abbreviate_zoning" THEN "Urban Village" ELSE "Mixed Use"

(***************************************************************************)
(* The order of run_etl's stages and what a failure leaves behind.         *)
(***************************************************************************)
\* the statements run_etl has started so far
Started == SubSeq(RunEtlStatements, 1, step)
\* the statements that completed
Completed == {i \in 1..step : i # failing}
StageRank(stage) == CASE stage = "Extract" -> 1 [] stage = "Transform" -> 2 [] stage = "Load" -> 3
SixOutputs ==
    {"parcels_with_zoning.parquet", "zoning.parquet", "equity.parquet", "affordable.parquet",
     "san_jose_tracts_with_acs.geoparquet", "parcels_with_zoning_and_tract_data.parquet"}
ExtractOrTransform ==
    {i \in 1..Len(RunEtlStatements) : RunEtlStatements[i].stage \in {"Extract", "Transform"}}

\* C12: in every run of run_etl the statements run in the order Extract,
\* Transform, Load; a save_parquet call is started only when every extract and
\* transform statement has completed; and a run that completes has written
\* each of the six outputs exactly once.
C12_StagesInOrder ==
    fn = "run_etl" /\ step > 0 =>
        /\ \A i, j \in 1..step :
              i < j => StageRank(Started[i].stage) <= StageRank(Started[j].stage)
        /\ \A i \in 1..step :
              Started[i].stage = "Load" => ExtractOrTransform \subseteq Completed \cap 1..(i - 1)
        /\ saved # <<>> => ExtractOrTransform \subseteq Completed
        /\ pc = "returned" =>
              /\ Range(saved) = SixOutputs
              /\ Len(saved) = Cardinality(SixOutputs)

\* a run completed
C12_Witness ==
    /\ fn = "run_etl"
    /\ step = Len(RunEtlStatements)
    /\ pc = "returned"
    /\ Len(saved) = 6

\* C13: when an extract or a transform statement of run_etl raises, the error
\* leaves run_etl (no handler, no retry), no later statement is started, the
\* run never returns, and save_parquet has written no file.
C13_FailurePropagates ==
    fn = "run_etl" /\ failing \in ExtractOrTransform =>
        /\ step <= failing
        /\ step = failing => pc = "raised"
        /\ pc # "returned"
        /\ saved = <<>>

\* the zoning join raised after the seven extract statements
C13_Witness ==
    /\ fn = "run_etl"
    /\ pc = "raised"
    /\ step = failing
    /\ RunEtlStatements[failing].call = "join_parcels_zoning"
    /\ saved = <<>>

(***************************************************************************)
(* The city's tracts and their ACS rows.                                   *)
(***************************************************************************)
SubsetDone == fn = "subset_city_tracts" /\ pc = "returned"
MergeDone == fn = "merge_tracts_with_acs" /\ pc = "returned"
\* the polygons of the places named city_name
CityPolygons == {p.geometry : p \in {q \in Range(places.rows) : q.attrs[NAME] = Some(city_name)}}
\* the middle of tract t lies strictly inside polygon p
CentroidInside(t, p) == 2 * p.lo < t.geometry.lo + t.geometry.hi /\ t.geometry.lo + t.geometry.hi < 2 * p.hi
\* the input tracts of the city
CityTracts == {t \in Range(tracts.rows) : \E p \in CityPolygons : CentroidInside(t, p)}
\* the rows of the returned layer that are tract t with its own polygon
RowsOfTract(t) ==
    {i \in 1..Len(result.value.rows) :
        /\ result.value.rows[i].attrs[GEOID_left] = t.attrs[GEOID]
        /\ result.value.rows[i].geometry = t.geometry}
AcsRowsOf(t) == {r \in Range(df.rows) : r["GEOID"] = t.attrs[GEOID]}

\* C14: subset_city_tracts returns exactly the input tracts whose centroid
\* lies within the polygon of the place named city_name (none when no place
\* has the name), each once and with its own polygon as geometry;
\* merge_tracts_with_acs keeps every one of them, with the ACS fields of the
\* ACS row of the same GEOID, and with null ACS fields when there is no such
\* row.  Neither call raises.
C14_CityTractsKept ==
    /\ fn \in {"subset_city_tracts", "merge_tracts_with_acs"} => pc # "raised"
    /\ SubsetDone \/ MergeDone =>
          /\ Len(result.value.rows) = Cardinality(CityTracts)
          /\ \A t \in CityTracts : Cardinality(RowsOfTract(t)) = 1
    /\ SubsetDone =>
          \A i \in 1..Len(result.value.rows) :
              result.value.rows[i].index \in {t.index : t \in CityTracts}
    /\ MergeDone =>
          /\ Col("median_rent") \in Range(result.value.columns)
          /\ \A t \in CityTracts : \A i \in RowsOfTract(t) :
                IF AcsRowsOf(t) = {}
                THEN /\ isna(result.value.rows[i].attrs[GEOID])
                     /\ isna(result.value.rows[i].attrs[Col("median_rent")])
                ELSE \E a \in AcsRowsOf(t) :
                        /\ result.value.rows[i].attrs[GEOID] = a["GEOID"]
                        /\ result.value.rows[i].attrs[Col("median_rent")] = a["median_rent"]

\* of two tracts one has its centroid in San Jose and not the other, though both
\* are in the other place; the one kept has no ACS row and the other has
C14_Witness ==
    /\ MergeDone
    /\ city_name = "San Jose"
    /\ Cardinality(CityTracts) = 1
    /\ \A t \in CityTracts : AcsRowsOf(t) = {}
    /\ Len(df.rows) = 1
    /\ Len(result.value.rows) = 1
    /\ isna(result.value.rows[1].attrs[Col("median_rent")])

(***************************************************************************)
(* The parcels around the station.                                         *)
(***************************************************************************)
ParcelsDone == fn = "summarize_parcels" /\ pc = "returned"
\* the middle of parcel r lies strictly inside the buffer
InBuffer(r) ==
    /\ 2 * buffer[1].lo < r.geometry.lo + r.geometry.hi
    /\ r.geometry.lo + r.geometry.hi < 2 * buffer[1].hi
\* row o of a returned layer is input parcel r: its label, its polygon, its cells
SameParcel(o, r) ==
    /\ o.index = r.index
    /\ o.geometry = r.geometry
    /\ \A c \in DOMAIN r.attrs : c \in DOMAIN o.attrs /\ o.attrs[c] = r.attrs[c]
FromRunEtl == cleaned.raised = ""

\* C15: summarize_parcels returns as within_1m exactly the input parcels whose
\* centroid is within the buffer, each once; uv is a subset of within_1m;
\* total_parcels and uv_parcels are the sizes of the two, so uv_parcels <=
\* total_parcels; and the caller's layer is as it was, with no centroid column.
C15_ParcelSummary ==
    ParcelsDone =>
        LET w == result.value.within_1m.rows
            u == result.value.uv.rows
        IN /\ Len(w) = Cardinality({r \in Range(parcels.rows) : InBuffer(r)})
           /\ \A r \in Range(parcels.rows) :
                 Cardinality({i \in 1..Len(w) : SameParcel(w[i], r)}) = IF InBuffer(r) THEN 1 ELSE 0
           /\ Range(u) \subseteq Range(w)
           /\ Cardinality(Range(u)) = Len(u)
           /\ result.value.summary.total_parcels = Len(w)
           /\ result.value.summary.uv_parcels = Len(u)
           /\ result.value.summary.uv_parcels <= result.value.summary.total_parcels
           /\ centroid_label \notin Range(parcels.columns)
           /\ \A r \in Range(parcels.rows) : DOMAIN r.attrs = Range(parcels.columns)
           /\ FromRunEtl => parcels = cleaned.value

\* of two parcels one is outside the buffer, the other inside and in uv
C15_Witness ==
    /\ ParcelsDone
    /\ Len(parcels.rows) = 2
    /\ \E r \in Range(parcels.rows) : ~InBuffer(r)
    /\ result.value.summary.total_parcels = 1
    /\ result.value.summary.uv_parcels = 1

\* C16: for the parcels run_etl produced, the uv layer summarize_parcels
\* returns is exactly the parcels whose centroid is within the buffer and whose
\* zoning is "Urban Village" (zoning code UV).
C16_UrbanVillageParcels ==
    ParcelsDone /\ FromRunEtl =>
        {o.index : o \in Range(result.value.uv.rows)}
            = {r.index : r \in {q \in Range(parcels.rows) :
                                  InBuffer(q) /\ q.attrs[zoning_label] = Some("Urban Village")}}

(***************************************************************************)
(* The tracts around the station and their means.                          *)
(***************************************************************************)
AcsSummaryDone == fn = "summarize_acs" /\ pc = "returned"
\* tract t and the buffer share a point
TouchesBuffer(t) == \E x \in t.geometry.lo..t.geometry.hi : buffer[1].lo <= x /\ x <= buffer[1].hi
\* the values of column c the selected tracts have
ValuesOf(c) ==
    {i \in 1..Len(tracts.rows) : TouchesBuffer(tracts.rows[i]) /\ ~isna(tracts.rows[i].attrs[c])}
RECURSIVE Total(_, _)
Total(c, rows) ==
    IF rows = {} THEN 0
    ELSE LET i == CHOOSE i \in rows : TRUE
         IN tracts.rows[i].attrs[c][1] + Total(c, rows \ {i})
\* the labels of acs_cols whose column the tract layer has
LabelsPresent ==
    {acs_cols[i].label : i \in {j \in 1..Len(acs_cols) : Col(acs_cols[j].col) \in Range(tracts.columns)}}
ColumnOf(l) == Col(acs_cols[CHOOSE i \in 1..Len(acs_cols) : acs_cols[i].label = l].col)

\* C17: summarize_acs selects exactly the tracts whose polygon intersects the
\* buffer; its summary has one entry per label of acs_cols whose column the
\* tract layer has, the mean of that column over the selected tracts (over
\* those of them that have a value, NaN when none has), and no entry for a
\* label whose column is missing; the call never raises.
C17_AcsSummary ==
    /\ fn = "summarize_acs" => pc # "raised"
    /\ AcsSummaryDone =>
          LET sel == result.value.tracts_sel.rows
          IN /\ Len(sel) = Cardinality({t \in Range(tracts.rows) : TouchesBuffer(t)})
             /\ \A t \in Range(tracts.rows) :
                   Cardinality({i \in 1..Len(sel) :
                                   /\ sel[i].index = t.index
                                   /\ sel[i].geometry = t.geometry
                                   /\ sel[i].attrs[GEOID] = t.attrs[GEOID]})
                       = IF TouchesBuffer(t) THEN 1 ELSE 0
             /\ DOMAIN result.value.summary = LabelsPresent
             /\ \A l \in LabelsPresent :
                   result.value.summary[l] =
                       IF ValuesOf(ColumnOf(l)) = {} THEN NaN
                       ELSE <<Total(ColumnOf(l), ValuesOf(ColumnOf(l))),
                              Cardinality(ValuesOf(ColumnOf(l)))>>

\* one of two tracts is selected, one label has its column and another has not
C17_Witness ==
    /\ AcsSummaryDone
    /\ Len(result.value.tracts_sel.rows) = 1
    /\ Len(acs_cols) = 3
    /\ DOMAIN result.value.summary = {"Median rent", "Rent"}
    /\ result.value.summary["Rent"] = <<2, 1>>

(***************************************************************************)
(* The join's how argument.                                                *)
(***************************************************************************)
\* the districts parcel row p intersects on the ground, by position in the layer
Hits(p) == {j \in 1..Len(zoning.rows) : GroundIntersects(p.geometry, zoning.rows[j])}
FirstHit(p) == CHOOSE j \in Hits(p) : \A k \in Hits(p) : j <= k

\* C18: sjoin_parcels_to_zd raises ValueError and returns no layer when how is
\* neither "largest" nor "first"; with how = "first" it returns one row per
\* input parcel, in input order, carrying the attributes of the first zoning
\* district of the layer that the parcel intersects, or null zoning attributes
\* when it intersects none, and no overlap_area column.
C18_HowFirstOrError ==
    fn = "sjoin_parcels_to_zd" /\ pc # "call" =>
        /\ join_how \notin {"largest", "first"} =>
              /\ pc = "raised"
              /\ result.raised = "ValueError"
              /\ "value" \notin DOMAIN result
        /\ join_how \in {"largest", "first"} => pc = "returned" /\ result.raised = ""
        /\ join_how = "first" =>
              /\ Len(result.value.rows) = Len(parcels.rows)
              /\ overlap_area \notin Range(result.value.columns)
              /\ \A i \in 1..Len(parcels.rows) :
                    LET o == result.value.rows[i]
                        p == parcels.rows[i]
                    IN /\ o.index = p.index
                       /\ o.geometry = p.geometry
                       /\ o.attrs[PARCELID] = p.attrs[PARCELID]
                       /\ overlap_area \notin DOMAIN o.attrs
                       /\ \A c \in {ZONING, OBJECTID} :
                             o.attrs[c] = IF Hits(p) = {} THEN NA
                                          ELSE zoning.rows[FirstHit(p)].attrs[c]

\* how = "first": one parcel intersects both districts, the other none
C18_Witness ==
    /\ fn = "sjoin_parcels_to_zd"
    /\ pc = "returned"
    /\ join_how = "first"
    /\ Len(parcels.rows) = 2
    /\ \E p \in Range(parcels.rows) : Cardinality(Hits(p)) = 2
    /\ \E p \in Range(parcels.rows) : Hits(p) = {}

====
